---- MODULE Spec2Model ----
(***************************************************************************)
(* Model of the mountinfo line parser (MountEntry::from_str) and of the    *)
(* streaming adapter parse_mountinfo of src/src/process.rs, with the error *)
(* variants of src/src/error.rs.                                           *)
(*                                                                         *)
(* A string is a sequence of one-character strings.  An unsigned integer   *)
(* value is its canonical decimal digit string (no sign, no leading zero), *)
(* so that u32 and usize keep their real ranges.                           *)
(***************************************************************************)
EXTENDS Integers, Sequences, FiniteSets, TLC

VARIABLES lines,    \* what BufReader::lines() will hand out, in order
          pos,      \* number of reads already made
          items,    \* the items the iterator has yielded so far
          ended,    \* TRUE once the iterator has returned None
          rejects,  \* option pieces the external MntOps parser fails on
          origin    \* for each line, the tokens and spacing it was written from

vars == <<lines, pos, items, ended, rejects, origin>>

----------------------------------------------------------------------------
(* Bounds of the input space.                                              *)

MaxDev == 2      \* fields in which a line departs from the canonical line
MaxTags == 2     \* tag tokens between mount_opts and the sentinel
MaxExtra == 2    \* tokens after super_opts
MaxLines == 3    \* lines of a streamed input

----------------------------------------------------------------------------
(* Strings.                                                                *)

Digits == {"0", "1", "2", "3", "4", "5", "6", "7", "8", "9"}

SetMin(S) == CHOOSE x \in S : \A y \in S : x <= y
SetMax(S) == CHOOSE x \in S : \A y \in S : x >= y

IsWhitespace(c) == c \in {" ", "\t", "\n", "\r"}

Trim(s) ==
  LET keep == {i \in 1..Len(s) : ~IsWhitespace(s[i])}
  IN IF keep = {} THEN << >> ELSE SubSeq(s, SetMin(keep), SetMax(keep))

RECURSIVE Split(_, _)
Split(s, delims) ==
  LET hits == {i \in 1..Len(s) : s[i] \in delims}
  IN IF hits = {} THEN <<s>>
     ELSE LET i == SetMin(hits)
          IN <<SubSeq(s, 1, i - 1)>> \o Split(SubSeq(s, i + 1, Len(s)), delims)

SplitTerminator(s, delims) ==
  LET p == Split(s, delims)
  IN IF p[Len(p)] = << >> THEN SubSeq(p, 1, Len(p) - 1) ELSE p

NonEmpty(s) == s # << >>

\* Variant: adjacent separators leave empty tokens in the stream.
TokenizeKeepEmpty(line) == SplitTerminator(Trim(line), {" ", "\t"})

Tokenize(line) == SelectSeq(SplitTerminator(Trim(line), {" ", "\t"}), NonEmpty)

----------------------------------------------------------------------------
(* Integer conversion (str::parse for u32 and usize): an optional + sign,  *)
(* then decimal digits; a value above the type's maximum is an overflow.   *)
(* usize is taken as 64 bits wide.                                         *)

U32Max == <<"4", "2", "9", "4", "9", "6", "7", "2", "9", "5">>
UsizeMax == <<"1", "8", "4", "4", "6", "7", "4", "4", "0", "7",
              "3", "7", "0", "9", "5", "5", "1", "6", "1", "5">>

DigitVal(c) ==
  CASE c = "0" -> 0 [] c = "1" -> 1 [] c = "2" -> 2 [] c = "3" -> 3
    [] c = "4" -> 4 [] c = "5" -> 5 [] c = "6" -> 6 [] c = "7" -> 7
    [] c = "8" -> 8 [] c = "9" -> 9

Canonical(digits) ==
  LET nz == {i \in 1..Len(digits) : digits[i] # "0"}
  IN IF nz = {} THEN <<"0">> ELSE SubSeq(digits, SetMin(nz), Len(digits))

Exceeds(a, b) ==
  \/ Len(a) > Len(b)
  \/ /\ Len(a) = Len(b)
     /\ \E i \in 1..Len(a) :
          /\ DigitVal(a[i]) > DigitVal(b[i])
          /\ \A j \in 1..(i - 1) : a[j] = b[j]

ParseIntError(kind) == [kind |-> "ParseIntError", arg |-> <<kind>>]

ParseUInt(s, max) ==
  IF s = << >> THEN [ok |-> FALSE, err |-> ParseIntError("Empty")]
  ELSE IF s = <<"+">> \/ s = <<"-">>
    THEN [ok |-> FALSE, err |-> ParseIntError("InvalidDigit")]
  ELSE LET digits == IF s[1] = "+" THEN Tail(s) ELSE s
       IN IF \E i \in 1..Len(digits) : digits[i] \notin Digits
            THEN [ok |-> FALSE, err |-> ParseIntError("InvalidDigit")]
          ELSE IF Exceeds(Canonical(digits), max)
            THEN [ok |-> FALSE, err |-> ParseIntError("PosOverflow")]
          ELSE [ok |-> TRUE, val |-> Canonical(digits)]

----------------------------------------------------------------------------
(* Error variants of LineError used by the mountinfo parser.               *)

MissingMountId == [kind |-> "MissingMountId", arg |-> << >>]
MissingParentId == [kind |-> "MissingParentId", arg |-> << >>]
MissingDevId == [kind |-> "MissingDevId", arg |-> << >>]
InvalidDevId(s) == [kind |-> "InvalidDevId", arg |-> s]
MissingRoot == [kind |-> "MissingRoot", arg |-> << >>]
MissingMountPoint == [kind |-> "MissingMountPoint", arg |-> << >>]
MissingMountOpts == [kind |-> "MissingMountOpts", arg |-> << >>]
InvalidTag(s) == [kind |-> "InvalidTag", arg |-> s]
MissingSeparator == [kind |-> "MissingSeparator", arg |-> << >>]
MissingFileSystem == [kind |-> "MissingFileSystem", arg |-> << >>]
MissingMountSource == [kind |-> "MissingMountSource", arg |-> << >>]
MissingSuperOpts == [kind |-> "MissingSuperOpts", arg |-> << >>]
IoError(kind) == [kind |-> "IoError", arg |-> <<kind>>]
MntOpsError(piece) == [kind |-> "MntOpsError", arg |-> piece]

Err(e) == [ok |-> FALSE, err |-> e]

----------------------------------------------------------------------------
(* The option-token parser (MntOps::from_str), external to process.rs.     *)

ParseMntOps(piece) ==
  IF piece \in rejects THEN Err(MntOpsError(piece))
  ELSE IF piece = <<"r", "w">>
    THEN [ok |-> TRUE, val |-> [opt |-> "Write", arg |-> <<"true">>]]
  ELSE [ok |-> TRUE, val |-> [opt |-> "Extra", arg |-> piece]]

\* token.split_terminator(',').map(|s| s.parse()).collect::<Result<Vec<_>, _>>()
ParseOpts(token) ==
  LET pieces == SplitTerminator(token, {","})
      parsed == [i \in 1..Len(pieces) |-> ParseMntOps(pieces[i])]
      bad == {i \in 1..Len(pieces) : ~parsed[i].ok}
  IN IF bad # {} THEN parsed[SetMin(bad)]
     ELSE [ok |-> TRUE, val |-> [i \in 1..Len(pieces) |-> parsed[i].val]]

----------------------------------------------------------------------------
(* MountEntry::from_str.                                                   *)

\* Variant: parts after the second are not looked at.
ParseDevIgnoreRest(dev) ==
  LET tokens == SplitTerminator(dev, {":"})
  IN IF Len(tokens) < 1 THEN Err(InvalidDevId(dev))
     ELSE LET dev_major == ParseUInt(tokens[1], U32Max)
          IN IF ~dev_major.ok THEN dev_major
             ELSE IF Len(tokens) < 2 THEN Err(InvalidDevId(dev))
             ELSE LET dev_minor == ParseUInt(tokens[2], U32Max)
                  IN IF ~dev_minor.ok THEN dev_minor
                     ELSE [ok |-> TRUE, val |-> <<dev_major.val, dev_minor.val>>]

\* Variant: a part that is no integer is reported as an invalid device id.
ParseDevInvalidOnBadInt(dev) ==
  LET tokens == SplitTerminator(dev, {":"})
  IN IF Len(tokens) < 1 THEN Err(InvalidDevId(dev))
     ELSE LET dev_major == ParseUInt(tokens[1], U32Max)
          IN IF ~dev_major.ok THEN Err(InvalidDevId(dev))
             ELSE IF Len(tokens) < 2 THEN Err(InvalidDevId(dev))
             ELSE LET dev_minor == ParseUInt(tokens[2], U32Max)
                  IN IF ~dev_minor.ok THEN Err(InvalidDevId(dev))
                     ELSE IF Len(tokens) < 3
                       THEN [ok |-> TRUE, val |-> <<dev_major.val, dev_minor.val>>]
                     ELSE Err(InvalidDevId(dev))

ParseDev(dev) ==
  LET tokens == SplitTerminator(dev, {":"})
  IN IF Len(tokens) < 1 THEN Err(InvalidDevId(dev))
     ELSE LET dev_major == ParseUInt(tokens[1], U32Max)
          IN IF ~dev_major.ok THEN dev_major
             ELSE IF Len(tokens) < 2 THEN Err(InvalidDevId(dev))
             ELSE LET dev_minor == ParseUInt(tokens[2], U32Max)
                  IN IF ~dev_minor.ok THEN dev_minor
                     ELSE IF Len(tokens) < 3
                       THEN [ok |-> TRUE, val |-> <<dev_major.val, dev_minor.val>>]
                     ELSE Err(InvalidDevId(dev))

\* Variant: split instead of split_terminator, a trailing colon gives Some("").
ParseTagKeepEmpty(tag) ==
  LET tokens == Split(tag, {":"})
  IN [ok |-> TRUE,
      val |-> [name |-> tokens[1],
               value |-> IF Len(tokens) < 2 THEN << >> ELSE <<tokens[2]>>]]

\* Variant: splitn(2, ':'), the value is all that follows the first colon.
ParseTagRemainder(tag) ==
  LET colons == {i \in 1..Len(tag) : tag[i] = ":"}
  IN IF colons = {} THEN [ok |-> TRUE, val |-> [name |-> tag, value |-> << >>]]
     ELSE [ok |-> TRUE,
           val |-> [name |-> SubSeq(tag, 1, SetMin(colons) - 1),
                    value |-> <<SubSeq(tag, SetMin(colons) + 1, Len(tag))>>]]

ParseTag(tag) ==
  LET tokens == SplitTerminator(tag, {":"})
  IN IF Len(tokens) < 1 THEN Err(InvalidTag(tag))
     ELSE [ok |-> TRUE,
           val |-> [name |-> tokens[1],
                    value |-> IF Len(tokens) < 2 THEN << >> ELSE <<tokens[2]>>]]

\* The token that ends the tag list.
Sentinel == <<"-">>

\* Variant: the end of the line ends the tag list like the sentinel does.
RECURSIVE TagLoopEndsTags(_, _, _)
TagLoopEndsTags(tokens, i, tags) ==
  IF i > Len(tokens) THEN [ok |-> TRUE, val |-> tags, next |-> i]
  ELSE IF tokens[i] = Sentinel THEN [ok |-> TRUE, val |-> tags, next |-> i + 1]
  ELSE LET t == ParseTag(tokens[i])
       IN IF ~t.ok THEN t ELSE TagLoopEndsTags(tokens, i + 1, Append(tags, t.val))

RECURSIVE TagLoop(_, _, _)
TagLoop(tokens, i, tags) ==
  IF i > Len(tokens) THEN Err(MissingSeparator)
  ELSE IF tokens[i] = Sentinel THEN [ok |-> TRUE, val |-> tags, next |-> i + 1]
  ELSE LET t == ParseTag(tokens[i])
       IN IF ~t.ok THEN t ELSE TagLoop(tokens, i + 1, Append(tags, t.val))

\* Variant: the three tokens are counted before any of them is converted.
ParseIdsCountFirst(tokens) ==
  IF Len(tokens) < 1 THEN Err(MissingMountId) ELSE
  IF Len(tokens) < 2 THEN Err(MissingParentId) ELSE
  IF Len(tokens) < 3 THEN Err(MissingDevId) ELSE
  LET mount_id == ParseUInt(tokens[1], UsizeMax) IN
  IF ~mount_id.ok THEN mount_id ELSE
  LET parent_id == ParseUInt(tokens[2], UsizeMax) IN
  IF ~parent_id.ok THEN parent_id ELSE
  LET dev == ParseDev(tokens[3]) IN
  IF ~dev.ok THEN dev ELSE
  [ok |-> TRUE,
   val |-> [mount_id |-> mount_id.val, parent_id |-> parent_id.val,
            dev_major |-> dev.val[1], dev_minor |-> dev.val[2]]]

\* mount_id, parent_id and the device id: tokens 1 to 3.
ParseIds(tokens) ==
  IF Len(tokens) < 1 THEN Err(MissingMountId) ELSE
  LET mount_id == ParseUInt(tokens[1], UsizeMax) IN
  IF ~mount_id.ok THEN mount_id ELSE
  IF Len(tokens) < 2 THEN Err(MissingParentId) ELSE
  LET parent_id == ParseUInt(tokens[2], UsizeMax) IN
  IF ~parent_id.ok THEN parent_id ELSE
  IF Len(tokens) < 3 THEN Err(MissingDevId) ELSE
  LET dev == ParseDev(tokens[3]) IN
  IF ~dev.ok THEN dev ELSE
  [ok |-> TRUE,
   val |-> [mount_id |-> mount_id.val, parent_id |-> parent_id.val,
            dev_major |-> dev.val[1], dev_minor |-> dev.val[2]]]

\* root, mount_point and mount_opts: tokens 4 to 6.
ParsePaths(tokens) ==
  IF Len(tokens) < 4 THEN Err(MissingRoot) ELSE
  IF Len(tokens) < 5 THEN Err(MissingMountPoint) ELSE
  IF Len(tokens) < 6 THEN Err(MissingMountOpts) ELSE
  LET mount_opts == ParseOpts(tokens[6]) IN
  IF ~mount_opts.ok THEN mount_opts ELSE
  [ok |-> TRUE,
   val |-> [root |-> tokens[4], mount_point |-> tokens[5],
            mount_opts |-> mount_opts.val]]

\* Variant: super_opts is read from the last token of the line.
ParseTailLast(tokens, next) ==
  IF Len(tokens) < next THEN Err(MissingFileSystem) ELSE
  IF Len(tokens) < next + 1 THEN Err(MissingMountSource) ELSE
  IF Len(tokens) < next + 2 THEN Err(MissingSuperOpts) ELSE
  LET super_opts == ParseOpts(tokens[Len(tokens)]) IN
  IF ~super_opts.ok THEN super_opts ELSE
  [ok |-> TRUE,
   val |-> [filesystem |-> tokens[next], mount_source |-> tokens[next + 1],
            super_opts |-> super_opts.val]]

\* filesystem, mount_source and super_opts: the three tokens from next on.
ParseTail(tokens, next) ==
  IF Len(tokens) < next THEN Err(MissingFileSystem) ELSE
  IF Len(tokens) < next + 1 THEN Err(MissingMountSource) ELSE
  IF Len(tokens) < next + 2 THEN Err(MissingSuperOpts) ELSE
  LET super_opts == ParseOpts(tokens[next + 2]) IN
  IF ~super_opts.ok THEN super_opts ELSE
  [ok |-> TRUE,
   val |-> [filesystem |-> tokens[next], mount_source |-> tokens[next + 1],
            super_opts |-> super_opts.val]]

from_str(line) ==
  LET tokens == Tokenize(line) IN
  LET ids == ParseIds(tokens) IN
  IF ~ids.ok THEN ids ELSE
  LET paths == ParsePaths(tokens) IN
  IF ~paths.ok THEN paths ELSE
  LET tags == TagLoop(tokens, 7, << >>) IN
  IF ~tags.ok THEN tags ELSE
  LET tail == ParseTail(tokens, tags.next) IN
  IF ~tail.ok THEN tail ELSE
  [ok |-> TRUE,
   val |-> [mount_id |-> ids.val.mount_id,
            parent_id |-> ids.val.parent_id,
            dev_major |-> ids.val.dev_major,
            dev_minor |-> ids.val.dev_minor,
            root |-> paths.val.root,
            mount_point |-> paths.val.mount_point,
            mount_opts |-> paths.val.mount_opts,
            tags |-> tags.val,
            filesystem |-> tail.val.filesystem,
            mount_source |-> tail.val.mount_source,
            super_opts |-> tail.val.super_opts]]

----------------------------------------------------------------------------
(* parse_mountinfo: one item per read of the underlying line reader.       *)

ParseRead(read) ==
  IF read.ok THEN from_str(read.text) ELSE Err(IoError(read.kind))

\* Variant: after a failed item the iterator returns None.
PullFused ==
  /\ pos < Len(lines)
  /\ IF \A i \in 1..Len(items) : items[i].ok
       THEN /\ items' = Append(items, ParseRead(lines[pos + 1]))
            /\ pos' = pos + 1
            /\ UNCHANGED ended
       ELSE /\ ended' = TRUE
            /\ UNCHANGED <<items, pos>>
  /\ UNCHANGED <<lines, rejects, origin>>

Pull ==
  /\ pos < Len(lines)
  /\ items' = Append(items, ParseRead(lines[pos + 1]))
  /\ pos' = pos + 1
  /\ UNCHANGED <<lines, ended, rejects, origin>>

PullEnd ==
  /\ pos >= Len(lines)
  /\ ended' = TRUE
  /\ UNCHANGED <<lines, pos, items, rejects, origin>>

Next == Pull \/ PullEnd

----------------------------------------------------------------------------
(* The inputs that are explored.  A line is written from a sequence of      *)
(* tokens and a spacing style; origin remembers both, the parser only sees *)
(* the text.  The single-line inputs are the canonical line                *)
(*   36 35 98:0 /mnt1 /mnt2 rw,noatime master:1 - ext3 /dev/root           *)
(*   rw,errors=continue                                                    *)
(* changed in at most MaxDev places: another token in a field, a tag or a  *)
(* trailing token added or removed, the line cut short, another spacing,   *)
(* or an option parser that rejects the piece x.                           *)

\* Each place of a line holds a sequence of tokens: one token, or none.
HeadBase ==
  <<<<<<"3", "6">>>>, <<<<"3", "5">>>>, <<<<"9", "8", ":", "0">>>>,
    <<<<"/", "m", "n", "t", "1">>>>,
    <<<<"/", "m", "n", "t", "2">>>>,
    <<<<"r", "w", ",", "n", "o", "a", "t", "i", "m", "e">>>>>>

HeadAlts ==
  << <<<<<<"0", "7">>>>,
       <<<<"+", "1">>>>,
       <<<<"x">>>>,
       <<<<"-">>>>>>,
     <<<<<<"0">>>>,
       <<<<"1", "x">>>>>>,
     <<<<<<"9", "8">>>>,
       <<<<"9", "8", ":">>>>,
       <<<<":">>>>,
       <<<<"9", "8", ":", "0", ":">>>>,
       <<<<"9", "8", ":", "0", ":", "1">>>>,
       <<<<"a", ":", "0">>>>,
       <<<<"8", ":", "x">>>>,
       <<<<":", "0">>>>,
       <<<<"a">>>>,
       <<<<"0", ":", "4", "2", "9", "4", "9", "6", "7", "2", "9", "5">>>>,
       <<<<"4", "2", "9", "4", "9", "6", "7", "2", "9", "6", ":", "0">>>>>>,
     <<<<Sentinel>>>>,
     <<<<Sentinel>>>>,
     <<<<<<"r", "w">>>>,
       <<<<"x">>>>,
       <<<<"n", "a", ",", "x", ",", "r", "w">>>>>> >>

TagBase ==
  [i \in 1..MaxTags |-> IF i = 1 THEN <<<<"m", "a", "s", "t", "e", "r", ":", "1">>>> ELSE << >>]

TagAlts ==
  [i \in 1..MaxTags |->
     (IF i = 1 THEN <<<< >>>> ELSE <<<<<<"m", "a", "s", "t", "e", "r", ":", "1">>>>>>)
       \o <<<<<<"n", "o", "e", "x", "e", "c">>>>,
            <<<<"s", "h", "a", "r", "e", "d", ":">>>>,
            <<<<":">>>>,
            <<<<"a", ":", "b", ":", "c">>>>,
            <<<<":", "b">>>>,
            <<<<"a", ":", ":">>>>>>]

TailBase ==
  <<<<Sentinel>>, <<<<"e", "x", "t", "3">>>>,
    <<<<"/", "d", "e", "v", "/", "r", "o", "o", "t">>>>,
    <<<<"r", "w", ",", "e", "r", "r", "o", "r", "s", "=", "c", "o", "n", "t", "i", "n", "u", "e">>>>>>

TailAlts ==
  << <<<< >>,
       <<<<"-", "-">>>>>>,
     <<<<Sentinel>>>>,
     <<<<<<"n", "o", "n", "e">>>>>>,
     <<<<<<"r", "w">>>>,
       <<<<"x">>>>>> >>

ExtraBase == [i \in 1..MaxExtra |-> << >>]

ExtraAlts == [i \in 1..MaxExtra |-> <<<<<<"z">>>>,
       <<<<"-">>>>,
       <<<<"9">>>>>>]

NumTokSlots == 6 + MaxTags + 4 + MaxExtra
CutDim == NumTokSlots + 1
WsDim == NumTokSlots + 2
RejDim == NumTokSlots + 3

BaseDims ==
  HeadBase \o TagBase \o TailBase \o ExtraBase \o <<NumTokSlots, 1, {}>>

AltDims ==
  HeadAlts \o TagAlts \o TailAlts \o ExtraAlts
    \o << [k \in 1..Len(HeadBase \o TagBase \o TailBase) |-> k - 1],
          <<2, 3>>, <<{<<"x">>}>> >>

\* A departure <<i, k>> puts the k-th alternative in place i.
Departures ==
  UNION {{<<i, k>> : k \in 1..Len(AltDims[i])} : i \in 1..Len(BaseDims)}

Valid(deps) == \A j \in 1..(Len(deps) - 1) : deps[j][1] < deps[j + 1][1]

Apply(deps) ==
  [i \in 1..Len(BaseDims) |->
     IF \E j \in 1..Len(deps) : deps[j][1] = i
       THEN LET j == CHOOSE j \in 1..Len(deps) : deps[j][1] = i
            IN AltDims[i][deps[j][2]]
       ELSE BaseDims[i]]

RECURSIVE Concat(_)
Concat(ss) == IF ss = << >> THEN << >> ELSE Head(ss) \o Concat(Tail(ss))

Prefix(s, k) == SubSeq(s, 1, IF k < Len(s) THEN k ELSE Len(s))

Source(dims) ==
  [io |-> FALSE,
   toks |-> Prefix(Concat(SubSeq(dims, 1, NumTokSlots)), dims[CutDim]),
   ws |-> dims[WsDim]]

Spacing(ws) ==
  CASE ws = 1 -> [lead |-> << >>, a |-> <<" ">>, b |-> <<" ">>, trail |-> << >>]
    [] ws = 2 -> [lead |-> << >>, a |-> <<"\t">>, b |-> <<"\t">>, trail |-> << >>]
    [] ws = 3 -> [lead |-> <<" ", "\t">>, a |-> <<" ", " ">>,
                  b |-> <<"\t", " ">>, trail |-> <<"\t", " ">>]

RECURSIVE Join(_, _, _)
Join(toks, i, sp) ==
  IF i > Len(toks) THEN << >>
  ELSE toks[i]
         \o (IF i = Len(toks) THEN << >> ELSE IF i % 2 = 1 THEN sp.a ELSE sp.b)
         \o Join(toks, i + 1, sp)

Render(toks, ws) == Spacing(ws).lead \o Join(toks, 1, Spacing(ws)) \o Spacing(ws).trail

IoFailure == [io |-> TRUE, toks |-> << >>, ws |-> 1]

ReadOf(src) ==
  IF src.io THEN [ok |-> FALSE, kind |-> "InvalidData"]
  ELSE [ok |-> TRUE, text |-> Render(src.toks, src.ws)]

\* The two lines of test_parse_mountinfo.
TestLine1 ==
  << <<"2", "1">>,
     <<"2", "6">>,
     <<"0", ":", "2", "0">>,
     <<"/">>,
     <<"/", "s", "y", "s">>,
     <<"r", "w", ",", "n", "o", "s", "u", "i", "d", ",", "n", "o", "d", "e", "v", ",", "n", "o", "e", "x", "e", "c", ",", "r", "e", "l", "a", "t", "i", "m", "e">>,
     <<"s", "h", "a", "r", "e", "d", ":", "7">>,
     <<"-">>,
     <<"s", "y", "s", "f", "s">>,
     <<"s", "y", "s", "f", "s">>,
     <<"r", "w">> >>

TestLine2 ==
  << <<"2", "6">>,
     <<"0">>,
     <<"8", ":", "2">>,
     <<"/">>,
     <<"/">>,
     <<"r", "w", ",", "r", "e", "l", "a", "t", "i", "m", "e">>,
     <<"-">>,
     <<"e", "x", "t", "4">>,
     <<"/", "d", "e", "v", "/", "s", "d", "a", "2">>,
     <<"r", "w", ",", "d", "a", "t", "a", "=", "o", "r", "d", "e", "r", "e", "d">> >>

StreamSources ==
  { [io |-> FALSE, toks |-> TestLine1, ws |-> 1],
    [io |-> FALSE, toks |-> TestLine2, ws |-> 1],
    Source(BaseDims),
    Source([BaseDims EXCEPT ![7 + MaxTags] = << >>]),
    Source([BaseDims EXCEPT ![3] = <<<<"9", "8">>>>, ![WsDim] = 3]),
    Source([BaseDims EXCEPT ![CutDim] = 0]),
    IoFailure }

StreamInputs == UNION {[1..n -> StreamSources] : n \in 0..MaxLines}

InitLine ==
  \E n \in 0..MaxDev : \E deps \in [1..n -> Departures] :
    /\ Valid(deps)
    /\ origin = <<Source(Apply(deps))>>
    /\ lines = <<ReadOf(Source(Apply(deps)))>>
    /\ rejects = Apply(deps)[RejDim]
    /\ pos = 0
    /\ items = << >>
    /\ ended = FALSE

InitStream ==
  \E srcs \in StreamInputs :
    /\ origin = srcs
    /\ lines = [i \in 1..Len(srcs) |-> ReadOf(srcs[i])]
    /\ rejects = {}
    /\ pos = 0
    /\ items = << >>
    /\ ended = FALSE

Spec == InitStream /\ [][Next]_vars

SpecLine == InitLine /\ [][Next]_vars

----------------------------------------------------------------------------
(* Vocabulary of the properties.  They speak of the tokens a line was      *)
(* written from (origin) and of the item the iterator yielded for it.      *)

Yielded == {i \in 1..Len(items) : ~origin[i].io}

Toks(i) == origin[i].toks

IsNumber(t) == t # << >> /\ \A j \in 1..Len(t) : t[j] \in Digits

RECURSIVE Value(_)
Value(t) == IF Len(t) > 1 /\ t[1] = "0" THEN Value(Tail(t)) ELSE t

\* t is accepted as an unsigned integer not above max (an optional + sign).
ValidUInt(t, max) ==
  LET d == IF Len(t) > 1 /\ t[1] = "+" THEN Tail(t) ELSE t
  IN IsNumber(d) /\ ~Exceeds(Value(d), max)

\* Why a token that is no valid unsigned integer fails to convert.
IntFailure(t) ==
  LET d == IF Len(t) > 1 /\ t[1] = "+" THEN Tail(t) ELSE t
  IN IF IsNumber(d) THEN "PosOverflow" ELSE "InvalidDigit"

HasColon(t) == \E j \in 1..Len(t) : t[j] = ":"

FirstColon(t) == SetMin({j \in 1..Len(t) : t[j] = ":"})

UpToColon(t) == IF HasColon(t) THEN SubSeq(t, 1, FirstColon(t) - 1) ELSE t

\* Index of the first sentinel after the sixth token, 0 if there is none.
FirstSentinel(toks) ==
  LET S == {j \in 7..Len(toks) : toks[j] = Sentinel}
  IN IF S = {} THEN 0 ELSE SetMin(S)

OptsAccepted(t) ==
  LET P == SplitTerminator(t, {","}) IN \A j \in 1..Len(P) : P[j] \notin rejects

DevAccepted(t) ==
  LET P == SplitTerminator(t, {":"})
  IN Len(P) = 2 /\ ValidUInt(P[1], U32Max) /\ ValidUInt(P[2], U32Max)

\* The first six tokens are present and each is accepted in its field.
HeadValid(toks) ==
  /\ Len(toks) >= 6
  /\ ValidUInt(toks[1], UsizeMax)
  /\ ValidUInt(toks[2], UsizeMax)
  /\ DevAccepted(toks[3])
  /\ OptsAccepted(toks[6])

WellFormedDevice(t) ==
  \E k \in 2..(Len(t) - 1) :
    /\ t[k] = ":"
    /\ IsNumber(SubSeq(t, 1, k - 1))
    /\ ~Exceeds(Value(SubSeq(t, 1, k - 1)), U32Max)
    /\ IsNumber(SubSeq(t, k + 1, Len(t)))
    /\ ~Exceeds(Value(SubSeq(t, k + 1, Len(t))), U32Max)

WellFormedOpts(t) ==
  LET P == Split(t, {","})
  IN \A j \in 1..Len(P) : P[j] # << >> /\ P[j] \notin rejects

\* The 11-field layout: ids, device, two paths, options, tags, the sentinel
\* and at least the three fields after it.
WellFormed(toks) ==
  /\ Len(toks) >= 6
  /\ IsNumber(toks[1]) /\ ~Exceeds(Value(toks[1]), UsizeMax)
  /\ IsNumber(toks[2]) /\ ~Exceeds(Value(toks[2]), UsizeMax)
  /\ WellFormedDevice(toks[3])
  /\ WellFormedOpts(toks[6])
  /\ FirstSentinel(toks) > 0
  /\ Len(toks) >= FirstSentinel(toks) + 3
  /\ WellFormedOpts(toks[FirstSentinel(toks) + 3])

ExpectedOpts(t) ==
  LET P == Split(t, {","}) IN [j \in 1..Len(P) |-> ParseMntOps(P[j]).val]

----------------------------------------------------------------------------
\* C1: every well-formed line of the 11-field layout, whatever the runs of
\* spaces and tabs between and around its tokens, parses to a record whose
\* mount_id, parent_id, device numbers, root, mount_point, filesystem and
\* mount_source are the values of tokens 1 to 5 and of the two tokens after
\* the sentinel, whose mount_opts and super_opts hold one parsed option per
\* comma-separated piece in order, and whose tags hold one entry per token
\* between token 6 and the first sentinel, in order.
C1_WellFormedLineParses ==
  \A i \in Yielded :
    WellFormed(Toks(i)) =>
      LET t == Toks(i)
          s == FirstSentinel(t)
          k == FirstColon(t[3])
          r == items[i]
      IN /\ r.ok
         /\ r.val.mount_id = Value(t[1])
         /\ r.val.parent_id = Value(t[2])
         /\ r.val.dev_major = Value(SubSeq(t[3], 1, k - 1))
         /\ r.val.dev_minor = Value(SubSeq(t[3], k + 1, Len(t[3])))
         /\ r.val.root = t[4]
         /\ r.val.mount_point = t[5]
         /\ r.val.mount_opts = ExpectedOpts(t[6])
         /\ Len(r.val.tags) = s - 7
         /\ \A j \in 1..(s - 7) : r.val.tags[j].name = UpToColon(t[6 + j])
         /\ r.val.filesystem = t[s + 1]
         /\ r.val.mount_source = t[s + 2]
         /\ r.val.super_opts = ExpectedOpts(t[s + 3])

C1_Witness ==
  \E i \in Yielded :
    /\ WellFormed(Toks(i))
    /\ origin[i].ws = 3
    /\ FirstSentinel(Toks(i)) > 7
    /\ items[i].ok

----------------------------------------------------------------------------
NoReadFails == \A i \in 1..Len(origin) : ~origin[i].io

ItemPerLineSoFar ==
  /\ Len(items) = pos
  /\ pos <= Len(lines)
  /\ \A i \in 1..Len(items) :
       items[i] = from_str(Render(origin[i].toks, origin[i].ws))
  /\ ended => Len(items) = Len(lines)

\* C2: for an input of n lines read without I/O error the iterator yields
\* exactly n items and then None; the i-th item is the result of parsing the
\* i-th line, and a failed item does not end the sequence: while lines are
\* left, a pull yields one more item and not None.
C2_OneItemPerLine ==
  /\ [](NoReadFails => ItemPerLineSoFar)
  /\ [][(NoReadFails /\ pos < Len(lines))
          => (Len(items') = Len(items) + 1 /\ ~ended')]_vars

C2_Witness ==
  /\ \A i \in 1..Len(origin) : ~origin[i].io
  /\ ended
  /\ Len(items) = 3
  /\ items[1].ok
  /\ ~items[2].ok
  /\ items[3].ok

----------------------------------------------------------------------------
----------------------------------------------------------------------------
TwoPartsOneBad(d) ==
  LET P == Split(d, {":"})
  IN /\ Len(P) = 2
     /\ P[1] # << >> /\ P[2] # << >>
     /\ ~ValidUInt(P[1], U32Max) \/ ~ValidUInt(P[2], U32Max)

\* C4 as stated: with two valid leading integers, a device token of two
\* colon-separated parts of which one is no unsigned integer (a:0, 8:x)
\* fails with InvalidDevId carrying the device token.
C4_BadPartIsInvalidDevId ==
  \A i \in Yielded :
    LET t == Toks(i) IN
    (/\ Len(t) >= 3
     /\ ValidUInt(t[1], UsizeMax)
     /\ ValidUInt(t[2], UsizeMax)
     /\ TwoPartsOneBad(t[3]))
      => items[i] = Err(InvalidDevId(t[3]))

\* C4 amended: such a line fails with the integer-conversion failure
\* (ParseIntError) of the first part that is no valid u32, and not with
\* InvalidDevId.
C4_BadPartIsParseIntError ==
  \A i \in Yielded :
    LET t == Toks(i) IN
    (/\ Len(t) >= 3
     /\ ValidUInt(t[1], UsizeMax)
     /\ ValidUInt(t[2], UsizeMax)
     /\ TwoPartsOneBad(t[3]))
      => LET P == Split(t[3], {":"})
             bad == IF ValidUInt(P[1], U32Max) THEN P[2] ELSE P[1]
         IN items[i] = Err(ParseIntError(IntFailure(bad)))

C4_Witness ==
  \E i \in Yielded :
    /\ Len(Toks(i)) >= 3
    /\ TwoPartsOneBad(Toks(i)[3])
    /\ ValidUInt(Split(Toks(i)[3], {":"})[1], U32Max)
    /\ items[i] = Err(ParseIntError("InvalidDigit"))

----------------------------------------------------------------------------
\* C5 as stated: a line none of whose tokens is the sentinel fails with
\* MissingSeparator and with no other variant.
C5_NoSentinelIsMissingSeparator ==
  \A i \in Yielded :
    (\A j \in 1..Len(Toks(i)) : Toks(i)[j] # Sentinel)
      => items[i] = Err(MissingSeparator)

\* C5 amended: a line whose first six tokens are present and accepted in
\* their fields and none of whose later tokens is the sentinel fails with
\* MissingSeparator and with no other variant.
C5_NoSentinelAfterHeadIsMissingSeparator ==
  \A i \in Yielded :
    (HeadValid(Toks(i)) /\ FirstSentinel(Toks(i)) = 0)
      => items[i] = Err(MissingSeparator)

C5_Witness ==
  \E i \in Yielded :
    /\ HeadValid(Toks(i))
    /\ FirstSentinel(Toks(i)) = 0
    /\ Len(Toks(i)) > 6
    /\ items[i] = Err(MissingSeparator)

----------------------------------------------------------------------------
NoColonTag(g) == ~HasColon(g)

TrailingColonTag(g) ==
  Len(g) >= 2 /\ g[Len(g)] = ":" /\ ~HasColon(SubSeq(g, 1, Len(g) - 1))

\* C6 as stated: in a parsed line a tag token without colon gives
\* (token, None) and a tag token name: gives (name, Some("")).
C6_TrailingColonIsSomeEmpty ==
  \A i \in Yielded :
    items[i].ok =>
      LET t == Toks(i)
          s == FirstSentinel(t)
          tags == items[i].val.tags
      IN /\ Len(tags) = s - 7
         /\ \A j \in 1..(s - 7) :
              /\ NoColonTag(t[6 + j])
                   => tags[j] = [name |-> t[6 + j], value |-> << >>]
              /\ TrailingColonTag(t[6 + j])
                   => tags[j] = [name |-> SubSeq(t[6 + j], 1, Len(t[6 + j]) - 1),
                                 value |-> << << >> >>]

\* C6 amended: in a parsed line a tag token without colon gives
\* (token, None) and a tag token name: gives (name, None) as well.
C6_TrailingColonIsNone ==
  \A i \in Yielded :
    items[i].ok =>
      LET t == Toks(i)
          s == FirstSentinel(t)
          tags == items[i].val.tags
      IN /\ Len(tags) = s - 7
         /\ \A j \in 1..(s - 7) :
              /\ NoColonTag(t[6 + j])
                   => tags[j] = [name |-> t[6 + j], value |-> << >>]
              /\ TrailingColonTag(t[6 + j])
                   => tags[j] = [name |-> SubSeq(t[6 + j], 1, Len(t[6 + j]) - 1),
                                 value |-> << >>]

C6_Witness ==
  \E i \in Yielded :
    /\ items[i].ok
    /\ \E j \in 7..(FirstSentinel(Toks(i)) - 1) : NoColonTag(Toks(i)[j])
    /\ \E j \in 7..(FirstSentinel(Toks(i)) - 1) : TrailingColonTag(Toks(i)[j])

----------------------------------------------------------------------------
\* C7: whenever a line parses, the line with further tokens appended after
\* super_opts (here up to MaxExtra of them) parses too, to the same record.
C7_TrailingTokensIgnored ==
  \A i \in Yielded :
    \A k \in 1..MaxExtra :
      k <= Len(Toks(i)) =>
        LET short == from_str(Render(Prefix(Toks(i), Len(Toks(i)) - k),
                                     origin[i].ws))
        IN short.ok => items[i] = short

C7_Witness ==
  \E i \in Yielded :
    /\ items[i].ok
    /\ Len(Toks(i)) > FirstSentinel(Toks(i)) + 3
    /\ from_str(Render(Prefix(Toks(i), FirstSentinel(Toks(i)) + 3), origin[i].ws)).ok

----------------------------------------------------------------------------
IntFailures == {ParseIntError(k) : k \in {"Empty", "InvalidDigit", "PosOverflow"}}

\* The failures field p of a line can give: the one for a missing token, or
\* those for a token the field does not accept; empty when the field is fine.
\* Fields 9 to 11 are the three after the first sentinel.
FieldErrors(toks, p) ==
  LET n == Len(toks)
      s == FirstSentinel(toks)
  IN CASE p = 1 -> IF n < 1 THEN {MissingMountId}
                   ELSE IF ~ValidUInt(toks[1], UsizeMax)
                     THEN {ParseIntError(IntFailure(toks[1]))}
                   ELSE {}
       [] p = 2 -> IF n < 2 THEN {MissingParentId}
                   ELSE IF ~ValidUInt(toks[2], UsizeMax)
                     THEN {ParseIntError(IntFailure(toks[2]))}
                   ELSE {}
       [] p = 3 -> IF n < 3 THEN {MissingDevId}
                   ELSE IF ~DevAccepted(toks[3])
                     THEN {InvalidDevId(toks[3])} \cup IntFailures
                   ELSE {}
       [] p = 4 -> IF n < 4 THEN {MissingRoot} ELSE {}
       [] p = 5 -> IF n < 5 THEN {MissingMountPoint} ELSE {}
       [] p = 6 -> IF n < 6 THEN {MissingMountOpts}
                   ELSE IF ~OptsAccepted(toks[6])
                     THEN {MntOpsError(x) : x \in rejects}
                   ELSE {}
       [] p = 7 -> {}
       [] p = 8 -> IF s = 0 THEN {MissingSeparator} ELSE {}
       [] p = 9 -> IF s = 0 \/ n < s + 1 THEN {MissingFileSystem} ELSE {}
       [] p = 10 -> IF s = 0 \/ n < s + 2 THEN {MissingMountSource} ELSE {}
       [] p = 11 -> IF s = 0 \/ n < s + 3 THEN {MissingSuperOpts}
                    ELSE IF ~OptsAccepted(toks[s + 3])
                      THEN {MntOpsError(x) : x \in rejects}
                    ELSE {}

BadFields(toks) == {p \in 1..11 : FieldErrors(toks, p) # {}}

\* C8: a failure is always the one of the leftmost field that is missing or
\* not accepted, whatever is wrong to its right (so k valid leading tokens,
\* k = 0..5, give MissingMountId .. MissingMountOpts, and a line ending at
\* the sentinel, the filesystem or the mount source gives MissingFileSystem,
\* MissingMountSource, MissingSuperOpts); a line with no such field parses.
C8_FirstErrorWins ==
  \A i \in Yielded :
    LET bad == BadFields(Toks(i))
    IN IF bad = {} THEN items[i].ok
       ELSE /\ ~items[i].ok
            /\ items[i].err \in FieldErrors(Toks(i), SetMin(bad))

C8_Witness ==
  \E i \in Yielded :
    /\ {1, 3} \subseteq BadFields(Toks(i))
    /\ Len(Toks(i)) >= 3
    /\ items[i] = Err(ParseIntError("InvalidDigit"))
    /\ ParseDev(Toks(i)[3]) # Err(ParseIntError("InvalidDigit"))

----------------------------------------------------------------------------
\* C9 as stated: a tag token with a colon and a non-empty part before the
\* first colon gives that part as name and Some of all that follows the
\* first colon as value (a:b:c gives (a, Some(b:c))).
C9_ValueIsRemainder ==
  \A i \in Yielded :
    items[i].ok =>
      LET t == Toks(i)
          s == FirstSentinel(t)
          tags == items[i].val.tags
      IN /\ Len(tags) = s - 7
         /\ \A j \in 1..(s - 7) :
              LET g == t[6 + j] IN
              (HasColon(g) /\ g[1] # ":")
                => tags[j] = [name |-> SubSeq(g, 1, FirstColon(g) - 1),
                              value |-> <<SubSeq(g, FirstColon(g) + 1, Len(g))>>]

\* C9 amended: the name is the part before the first colon; the value is
\* None when nothing follows the first colon, and otherwise Some of what
\* lies between the first colon and the second one, or the end of the token
\* (a:b:c gives (a, Some(b))).
C9_ValueIsSecondPart ==
  \A i \in Yielded :
    items[i].ok =>
      LET t == Toks(i)
          s == FirstSentinel(t)
          tags == items[i].val.tags
      IN /\ Len(tags) = s - 7
         /\ \A j \in 1..(s - 7) :
              LET g == t[6 + j]
                  rest == SubSeq(g, FirstColon(g) + 1, Len(g))
              IN (HasColon(g) /\ g[1] # ":")
                   => tags[j] = [name |-> SubSeq(g, 1, FirstColon(g) - 1),
                                 value |-> IF rest = << >> THEN << >>
                                           ELSE <<UpToColon(rest)>>]

C9_Witness ==
  \E i \in Yielded :
    /\ items[i].ok
    /\ \E j \in 7..(FirstSentinel(Toks(i)) - 1) :
         LET g == Toks(i)[j]
         IN HasColon(g) /\ g[1] # ":"
              /\ HasColon(SubSeq(g, FirstColon(g) + 1, Len(g)))

----------------------------------------------------------------------------
EmptyNameTags(toks) ==
  {j \in 7..(FirstSentinel(toks) - 1) : toks[j][1] = ":"}

\* C10: a line whose first six tokens are accepted and which has, before the
\* sentinel, a tag token with an empty name fails with InvalidTag carrying
\* that token, and no returned record holds a tag with an empty name.
C10_EmptyTagNameIsInvalidTag ==
  \A i \in Yielded :
    /\ (HeadValid(Toks(i)) /\ EmptyNameTags(Toks(i)) # {})
         => items[i] = Err(InvalidTag(Toks(i)[SetMin(EmptyNameTags(Toks(i)))]))
    /\ items[i].ok
         => \A j \in 1..Len(items[i].val.tags) : items[i].val.tags[j].name # << >>

====
